---- MODULE Spec2Model ----
(***************************************************************************)
(* Model of message_ix/models.py: construction of GAMSModel / MESSAGE /    *)
(* MACRO / MESSAGE_MACRO objects, GAMSModel.run and its cplex.opt file,    *)
(* gams_release, and MACRO.initialize.                                     *)
(*                                                                         *)
(* Python dicts are modelled as sequences of <<key, value>> pairs with     *)
(* distinct keys (insertion order is observable through cplex.opt).        *)
(* Mutable dicts live on a heap and are reached through references, so     *)
(* that copy / deepcopy versus aliasing is part of the model.              *)
(***************************************************************************)
EXTENDS Integers, Sequences, FiniteSets, TLC

\* ------------------------------------------------------------------ bounds
NumInst == 2
MaxRuns == 2
MaxSets == 1

\* --------------------------------------------------------------- universes
Inst == 1 .. NumInst
Dirs == {"cfg", "usr"}
Scenarios == {"s1", "s2"}
Classes == {"GAMSModel", "MESSAGE", "MACRO", "MESSAGE_MACRO"}

None == "None"

\* References to the mutable dicts on the heap: the module-level
\* DEFAULT_CPLEX_OPTIONS object and the dict each instance allocates.
DefaultRef == <<"DEFAULT_CPLEX_OPTIONS">>
OwnRef(i) == <<"cplex_opts", i>>
NoRef == << >>
Refs == {DefaultRef} \cup {OwnRef(i) : i \in Inst}

\* Python scalars that appear as option values: ints, and floats whose repr
\* is in exponent notation (m * 10^e with e <= -5).
Int_(n) == [t |-> "int", m |-> n, e |-> 0]
Float_(mant, ex) == [t |-> "float", m |-> mant, e |-> ex]

\* the sum of a function from Inst to numbers
RECURSIVE SumTo(_, _)
SumTo(f, n) == IF n = 0 THEN 0 ELSE f[n] + SumTo(f, n - 1)
Total(f) == SumTo(f, NumInst)

\* ------------------------------------------------------- dict operations
Keys(d) == {d[n][1] : n \in DOMAIN d}

IndexOf(d, k) == CHOOSE n \in DOMAIN d : d[n][1] = k

Lookup(d, k) == d[IndexOf(d, k)][2]

\* d[k] = v
SetItem(d, k, v) ==
    IF k \in Keys(d)
    THEN [d EXCEPT ![IndexOf(d, k)] = <<k, v>>]
    ELSE Append(d, <<k, v>>)

\* A d.update(u) that only adds the keys d lacks.
RECURSIVE update_missing_only(_, _)
update_missing_only(d, u) ==
    IF u = << >> THEN d
    ELSE update_missing_only(
             IF u[1][1] \in Keys(d) THEN d ELSE Append(d, u[1]), Tail(u))

\* d.update(u)
RECURSIVE update(_, _)
update(d, u) ==
    IF u = << >> THEN d
    ELSE update(SetItem(d, u[1][1], u[1][2]), Tail(u))

\* ---------------------------------------------------------- module data
DEFAULT_CPLEX_OPTIONS ==
    << <<"advind", Int_(0)>>,
       <<"lpmethod", Int_(2)>>,
       <<"threads", Int_(4)>>,
       <<"epopt", Float_(1, -6)>> >>

\* config.get('message model dir')
ConfigModelDir == "cfg"

\* ------------------------------------------------- keyword-argument dicts
\* **model_options is a function from the keys given to their values.
EmptyKw == [x \in {} |-> None]

With(opts, k, v) ==
    [x \in DOMAIN opts \cup {k} |-> IF x = k THEN v ELSE opts[x]]

\* opts.setdefault(k, v)
setdefault(opts, k, v) == IF k \in DOMAIN opts THEN opts ELSE With(opts, k, v)

\* opts after opts.pop(k, default)
pop_rest(opts, k) == [x \in DOMAIN opts \ {k} |-> opts[x]]

\* the value returned by opts.pop(k, default)
pop_value(opts, k, default) == IF k \in DOMAIN opts THEN opts[k] ELSE default

\* Inputs: the solve_options and model_options the callers pass.
SolveOptionSamples ==
    { << >>,
      << <<"threads", Int_(8)>> >>,
      << <<"iis", Int_(1)>>, <<"lpmethod", Int_(4)>> >> }

ModelOptionSamples ==
    LET A == {EmptyKw, With(EmptyKw, "model_dir", "usr")}
    IN  A \cup {With(a, "solve_options", so) : a \in A, so \in SolveOptionSamples}

\* ------------------------------------------------------------- strings
\* A version string is a sequence of code points; Python compares str
\* values code point by code point.
DOT == 46

Ord(digit) == 48 + digit

RECURSIVE Digits(_)
\* str(n) for a natural number n, as code points
Digits(n) == IF n < 10 THEN <<Ord(n)>> ELSE Digits(n \div 10) \o <<Ord(n % 10)>>

\* Python's  a < b  on str
RECURSIVE StrLess(_, _)
StrLess(a, b) ==
    IF b = << >> THEN FALSE
    ELSE IF a = << >> THEN TRUE
    ELSE IF a[1] # b[1] THEN a[1] < b[1]
    ELSE StrLess(Tail(a), Tail(b))

\* MACRO.GAMS_min_version = '24.8.1'
GAMS_min_version == <<Ord(2), Ord(4), DOT, Ord(8), DOT, Ord(1)>>

\* str(v) of an option value, as one token of text
PyStr(v) ==
    IF v.t = "int" THEN ToString(v.m)
    ELSE ToString(v.m) \o "e-" \o (IF -v.e < 10 THEN "0" ELSE "") \o ToString(-v.e)

\* '{} = {}'.format(*kv): the tokens of one line
format_line(kv) == <<kv[1], " = ", PyStr(kv[2])>>

\* '\n'.join(lines): text as a sequence of tokens
RECURSIVE join(_)
join(lines) ==
    IF lines = << >> THEN << >>
    ELSE IF Len(lines) = 1 THEN lines[1]
    ELSE lines[1] \o <<"\n">> \o join(Tail(lines))

\* the text GAMSModel.run writes for the options dict d
optfile_text(d) == join([n \in DOMAIN d |-> format_line(d[n])])

\* ------------------------------------------------------------------ state
VARIABLES
    heap,         \* ref -> options dict (DEFAULT_CPLEX_OPTIONS, self.cplex_opts)
    status,       \* per instance: "unborn", "init", "ok", "RuntimeError", "Error"
    cls,          \* per instance: the class being constructed
    args,         \* per instance: the **model_options the caller passed
    cplex_opts,   \* per instance: self.cplex_opts (a reference), NoRef if unset
    base_opts,    \* per instance: options forwarded to super().__init__
    model_dir,    \* per instance: self.model_dir
    release,      \* per instance: the release the gams binary reported to it
    gr_calls,     \* per instance: calls of gams_release made by its __init__
    sets,         \* per instance: assignments the user made to cplex_opts
    gr,           \* the frame of the gams_release call in progress
    optfile,      \* per directory: model_dir / 'cplex.opt'
    last_write,   \* per directory: who wrote cplex.opt last, and over what
    pc,           \* per instance: position of its run() call
    base_result,  \* per instance: how super().run ended
    result,       \* per instance: how run() ended
    exclusive,    \* per instance: no other run used its model_dir during run()
    nruns,        \* per instance: run() calls started
    item_heap,    \* ref -> inner dict of MACRO_ITEMS
    scenario,     \* per scenario: the names of the items it holds
    passed,       \* per scenario: the items handed to initialize_items
    init_result   \* per scenario: how the last MACRO.initialize ended

ctor_vars == <<heap, status, cls, args, cplex_opts, base_opts, model_dir,
               release, gr_calls, sets, gr>>
run_vars == <<optfile, last_write, pc, base_result, result, exclusive, nruns>>
item_vars == <<item_heap, scenario, passed, init_result>>
vars == <<ctor_vars, run_vars, item_vars>>

NoFile == [exists |-> FALSE, text |-> << >>]
File(text) == [exists |-> TRUE, text |-> text]

\* A cplex.opt left behind in the directory before the program starts.
StaleFile == File(<<"threads", " = ", "1">>)

NoOutcome == [kind |-> "none", value |-> None]
Return(v) == [kind |-> "return", value |-> v]
Raise(e) == [kind |-> "raise", value |-> e]

IdleFrame ==
    [pc |-> "idle", caller |-> 0, tmp_dir |-> FALSE, gms |-> FALSE,
     lst |-> FALSE, output |-> << >>, exc |-> None, ret |-> << >>,
     release |-> << >>]

\* --------------------------------------------------------- gams_release
\* Releases the installed gams binary may report (major, minor, patch).
Releases == { <<24, 7, 4>>, <<24, 8, 1>>, <<24, 10, 0>>, <<25, 1, 3>>, <<9, 0, 0>> }

\* what gams prints for a release: 'major.minor.patch'
FormatRelease(r) == Digits(r[1]) \o <<DOT>> \o Digits(r[2]) \o <<DOT>> \o Digits(r[3])

\* The console output of  gams null -LogOption=3 , line by line; a line is
\* its text before the release, the release, and the word after it.
JobLine == [head |-> "--- Job null Start", ver |-> << >>, tail |-> ""]
BannerLine(r) == [head |-> "GAMS ", ver |-> FormatRelease(r), tail |-> "Copyright"]
ReleasedLine(r) == [head |-> "GAMS ", ver |-> FormatRelease(r), tail |-> "Released"]

Outputs(r) == { <<JobLine, BannerLine(r)>>, <<JobLine, ReleasedLine(r)>> }

\* a line matched by  ^GAMS ([\d\.]+)\s*Copyright
Matches(line) ==
    /\ line.head = "GAMS "
    /\ line.ver # << >>
    /\ \A n \in DOMAIN line.ver :
          line.ver[n] = DOT \/ line.ver[n] \in Ord(0) .. Ord(9)
    /\ line.tail = "Copyright"

\* re.search(pattern, output, re.MULTILINE): the first matching line, or None
re_search(output) ==
    LET hits == {n \in DOMAIN output : Matches(output[n])}
    IN  IF hits = {} THEN << >>
        ELSE <<output[CHOOSE n \in hits : \A m \in hits : n <= m]>>

\* tmp_dir = Path(mkdtemp()); gms.write_text('$exit;')
gams_release_call(i) ==
    /\ gr.pc = "idle"
    /\ gr' = [IdleFrame EXCEPT !.pc = "exec", !.caller = i,
                               !.tmp_dir = TRUE, !.gms = TRUE]

\* check_output(['gams', 'null', '-LogOption=3'], cwd=tmp_dir): the process
\* fails (CalledProcessError) or prints its log; it may or may not leave
\* the listing file null.lst.
gams_release_exec ==
    /\ gr.pc = "exec"
    /\ \E lst \in BOOLEAN :
         \/ gr' = [gr EXCEPT !.pc = "raised", !.lst = lst,
                             !.exc = "CalledProcessError"]
         \/ \E r \in Releases : \E o \in Outputs(r) :
              gr' = [gr EXCEPT !.pc = "cleanup", !.lst = lst, !.release = r,
                               !.output = o]
    /\ UNCHANGED <<heap, status, cls, args, cplex_opts, base_opts, model_dir,
                   release, gr_calls, sets>>
    /\ UNCHANGED <<run_vars, item_vars>>

\* gms.unlink(); gms.with_suffix('.lst').unlink(); tmp_dir.rmdir()
gams_release_cleanup ==
    /\ gr.pc = "cleanup"
    /\ IF gr.lst
       THEN gr' = [gr EXCEPT !.pc = "parse", !.gms = FALSE, !.lst = FALSE,
                             !.tmp_dir = FALSE]
       ELSE gr' = [gr EXCEPT !.pc = "raised", !.gms = FALSE,
                             !.exc = "FileNotFoundError"]
    /\ UNCHANGED <<heap, status, cls, args, cplex_opts, base_opts, model_dir,
                   release, gr_calls, sets>>
    /\ UNCHANGED <<run_vars, item_vars>>

\* return re.search(pattern, output, re.MULTILINE).groups()[0]
gams_release_parse ==
    /\ gr.pc = "parse"
    /\ LET m == re_search(gr.output)
       IN  IF m = << >>
           THEN gr' = [gr EXCEPT !.pc = "raised", !.exc = "AttributeError"]
           ELSE gr' = [gr EXCEPT !.pc = "returned", !.ret = m[1].ver]
    /\ UNCHANGED <<heap, status, cls, args, cplex_opts, base_opts, model_dir,
                   release, gr_calls, sets>>
    /\ UNCHANGED <<run_vars, item_vars>>

\* ----------------------------------------------------------- construction
\* No copy: the new name refers to the dict at src itself.
copy_alias(h, src, fresh) == [ref |-> src, heap |-> h]

\* copy(d): a new dict with the entries of the dict at src
copy(h, src, fresh) == [ref |-> fresh, heap |-> [h EXCEPT ![fresh] = h[src]]]

\* the options handed on by  model_options.pop('solve_options', {})
forwarded(opts) == pop_rest(opts, "solve_options")

\* GAMSModel.__init__(self, name, **model_options), up to and including the
\* base-class initializer, which stores the options as attributes.
GAMSModel_init(i, model_options) ==
    LET opts == setdefault(model_options, "model_dir", ConfigModelDir)
        c == copy(heap, DefaultRef, OwnRef(i))
        solve_options == pop_value(opts, "solve_options", << >>)
        rest == forwarded(opts)
    IN  /\ heap' = [c.heap EXCEPT ![c.ref] = update(@, solve_options)]
        /\ cplex_opts' = [cplex_opts EXCEPT ![i] = c.ref]
        /\ base_opts' = [base_opts EXCEPT ![i] = rest]
        /\ model_dir' = [model_dir EXCEPT ![i] = rest["model_dir"]]
        /\ status' = [status EXCEPT ![i] = "ok"]

\* Objects are created one after the other.
CanConstruct(i) ==
    /\ status[i] = "unborn"
    /\ \A j \in Inst : j < i => status[j] \notin {"unborn", "init"}

\* GAMSModel(**opts) or MESSAGE(**opts): MESSAGE inherits __init__ unchanged.
New(i, c, opts) ==
    /\ CanConstruct(i)
    /\ c \in {"GAMSModel", "MESSAGE"}
    /\ cls' = [cls EXCEPT ![i] = c]
    /\ args' = [args EXCEPT ![i] = opts]
    /\ GAMSModel_init(i, opts)
    /\ UNCHANGED <<release, gr_calls, sets, gr>>
    /\ UNCHANGED <<run_vars, item_vars>>

\* MACRO(**opts) or MESSAGE_MACRO(**opts), up to the call of gams_release
MACRO_init_call(i, c, opts) ==
    /\ CanConstruct(i)
    /\ c \in {"MACRO", "MESSAGE_MACRO"}
    /\ cls' = [cls EXCEPT ![i] = c]
    /\ args' = [args EXCEPT ![i] = opts]
    /\ status' = [status EXCEPT ![i] = "init"]
    /\ gr_calls' = [gr_calls EXCEPT ![i] = @ + 1]
    /\ gams_release_call(i)
    /\ UNCHANGED <<heap, cplex_opts, base_opts, model_dir, release, sets>>
    /\ UNCHANGED <<run_vars, item_vars>>

\* version < self.GAMS_min_version
TooOld(version) == StrLess(version, GAMS_min_version)

\* The version check placed after super().__init__.
MACRO_init_check_late(i) ==
    /\ status[i] = "init"
    /\ gr.caller = i
    /\ gr.pc \in {"returned", "raised"}
    /\ gr' = IdleFrame
    /\ IF gr.pc = "raised"
       THEN /\ status' = [status EXCEPT ![i] = "Error"]
            /\ UNCHANGED <<heap, cplex_opts, base_opts, model_dir, release>>
       ELSE /\ release' = [release EXCEPT ![i] = gr.release]
            /\ LET opts == setdefault(args[i], "model_dir", ConfigModelDir)
                   c == copy(heap, DefaultRef, OwnRef(i))
               IN  /\ heap' = [c.heap EXCEPT ![c.ref] =
                                  update(@, pop_value(opts, "solve_options", << >>))]
                   /\ cplex_opts' = [cplex_opts EXCEPT ![i] = c.ref]
                   /\ base_opts' = [base_opts EXCEPT ![i] = forwarded(opts)]
                   /\ model_dir' = [model_dir EXCEPT ![i] = opts["model_dir"]]
                   /\ status' = [status EXCEPT ![i] =
                                   IF TooOld(gr.ret) THEN "RuntimeError" ELSE "ok"]
    /\ UNCHANGED <<cls, args, gr_calls, sets>>
    /\ UNCHANGED <<run_vars, item_vars>>

\* MACRO.__init__ from the return of gams_release: the version check, then
\* super().__init__; an exception of gams_release propagates.
MACRO_init_check(i) ==
    /\ status[i] = "init"
    /\ gr.caller = i
    /\ gr.pc \in {"returned", "raised"}
    /\ gr' = IdleFrame
    /\ IF gr.pc = "raised"
       THEN /\ status' = [status EXCEPT ![i] = "Error"]
            /\ UNCHANGED <<heap, cplex_opts, base_opts, model_dir, release>>
       ELSE /\ release' = [release EXCEPT ![i] = gr.release]
            /\ IF TooOld(gr.ret)
               THEN /\ status' = [status EXCEPT ![i] = "RuntimeError"]
                    /\ UNCHANGED <<heap, cplex_opts, base_opts, model_dir>>
               ELSE GAMSModel_init(i, args[i])
    /\ UNCHANGED <<cls, args, gr_calls, sets>>
    /\ UNCHANGED <<run_vars, item_vars>>

\* model.cplex_opts[k] = v, by the code that holds the model object; run()
\* blocks its caller, so this happens between runs of that object.
SetSamples == { <<"threads", Int_(2)>>, <<"names", Int_(0)>> }

SetOption(i, k, v) ==
    /\ status[i] = "ok"
    /\ pc[i] \in {"idle", "done"}
    /\ Total([j \in Inst |-> Len(sets[j])]) < MaxSets
    /\ heap' = [heap EXCEPT ![cplex_opts[i]] = SetItem(@, k, v)]
    /\ sets' = [sets EXCEPT ![i] = Append(@, <<k, v>>)]
    /\ UNCHANGED <<status, cls, args, cplex_opts, base_opts, model_dir,
                   release, gr_calls, gr>>
    /\ UNCHANGED <<run_vars, item_vars>>

\* ------------------------------------------------------------------- run
Active == {"engine", "finally"}

\* how super().run(scenario) may end
BaseOutcomes == {Return("None"), Raise("CalledProcessError")}

\* The write has not happened by the time the engine starts.
write_text_skipped(old, text) == old

\* The text is appended to what the file holds.
write_text_append(old, text) ==
    IF old.exists THEN File(old.text \o text) ELSE File(text)

\* optfile.write_text(text): the file is created or truncated
write_text(old, text) == File(text)

\* The unlink follows the call without try/finally: an error of the call
\* skips it.
run_exit_no_finally(f, outcome) ==
    IF outcome.kind = "raise" THEN [file |-> f, result |-> outcome]
    ELSE IF f.exists THEN [file |-> NoFile, result |-> outcome]
    ELSE [file |-> f, result |-> Raise("FileNotFoundError")]

\* try: ... finally: optfile.unlink(), then return result or re-raise; an
\* unlink of a missing file raises FileNotFoundError in place of either.
run_exit(f, outcome) ==
    IF f.exists
    THEN [file |-> NoFile, result |-> outcome]
    ELSE [file |-> f, result |-> Raise("FileNotFoundError")]

\* One options file for every model directory.
optfile_dir_shared(i) == ConfigModelDir

\* optfile = self.model_dir / 'cplex.opt': the directory that holds it
optfile_dir(i) == model_dir[i]

\* GAMSModel.run up to the call of super().run: cplex.opt is written and the
\* engine starts.
GAMSModel_run_call(i) ==
    LET d == optfile_dir(i)
        others == {j \in Inst \ {i} : pc[j] \in Active /\ optfile_dir(j) = d}
    IN  /\ status[i] = "ok"
        /\ pc[i] \in {"idle", "done"}
        /\ Total(nruns) < MaxRuns
        /\ optfile' = [optfile EXCEPT
                         ![d] = write_text(@, optfile_text(heap[cplex_opts[i]]))]
        /\ last_write' = [last_write EXCEPT
                            ![d] = [by |-> i, over |-> optfile[d].exists]]
        /\ pc' = [pc EXCEPT ![i] = "engine"]
        /\ base_result' = [base_result EXCEPT ![i] = NoOutcome]
        /\ result' = [result EXCEPT ![i] = NoOutcome]
        /\ exclusive' = [j \in Inst |->
                           IF j = i THEN others = {}
                           ELSE IF j \in others THEN FALSE ELSE exclusive[j]]
        /\ nruns' = [nruns EXCEPT ![i] = @ + 1]
        /\ UNCHANGED <<ctor_vars, item_vars>>

\* super().run(scenario) returns or raises
super_run_end(i, outcome) ==
    /\ pc[i] = "engine"
    /\ pc' = [pc EXCEPT ![i] = "finally"]
    /\ base_result' = [base_result EXCEPT ![i] = outcome]
    /\ UNCHANGED <<optfile, last_write, result, exclusive, nruns>>
    /\ UNCHANGED <<ctor_vars, item_vars>>

\* the finally clause and the end of GAMSModel.run
GAMSModel_run_exit(i) ==
    LET d == optfile_dir(i)
        x == run_exit(optfile[d], base_result[i])
    IN  /\ pc[i] = "finally"
        /\ optfile' = [optfile EXCEPT ![d] = x.file]
        /\ result' = [result EXCEPT ![i] = x.result]
        /\ pc' = [pc EXCEPT ![i] = "done"]
        /\ UNCHANGED <<last_write, base_result, exclusive, nruns>>
        /\ UNCHANGED <<ctor_vars, item_vars>>


\* ------------------------------------------------------------ initialize
\* The item table of message_ix.macro: name -> keyword arguments.
MACRO_ITEMS_data ==
    [n \in {"sector", "aeei", "C", "COST_NODAL", "COST_NODAL_NET", "DEMAND",
            "GDP", "I"} |->
       CASE n = "sector" -> [ix_type |-> "set"]
         [] n = "aeei" -> [ix_type |-> "par",
                           idx_sets |-> <<"node", "sector", "year">>]
         [] n = "DEMAND" -> [ix_type |-> "var",
                             idx_sets |-> <<"node", "commodity", "level",
                                            "year", "time">>]
         [] OTHER -> [ix_type |-> "var", idx_sets |-> <<"node", "year">>]]

ItemRef(n) == <<"MACRO_ITEMS", n>>

\* MACRO_ITEMS: the outer dict holds references to the inner dicts.
MACRO_ITEMS == [n \in DOMAIN MACRO_ITEMS_data |-> ItemRef(n)]

\* the names of MESSAGE_ITEMS
MESSAGE_ITEMS ==
    {"level_storage", "storage_tec", "map_tec_storage", "time_seq",
     "relation_storage", "bound_storage_lo", "bound_storage_up",
     "storage_loss", "init_storage"}

\* for name in 'C', 'COST_NODAL', 'COST_NODAL_NET', 'DEMAND', 'GDP', 'I'
PopNames == <<"C", "COST_NODAL", "COST_NODAL_NET", "DEMAND", "GDP", "I">>

\* copy(outer): a new outer dict referring to the same inner dicts
shallow_copy(h, outer) == [outer |-> outer, heap |-> h]

\* deepcopy(outer): a new outer dict referring to new inner dicts
deepcopy(h, outer) ==
    LET fresh(n) == <<"copy", n>>
        new == {fresh(n) : n \in DOMAIN outer}
    IN  [outer |-> [n \in DOMAIN outer |-> fresh(n)],
         heap |-> [r \in DOMAIN h \cup new |->
                     IF r \in new
                     THEN h[outer[CHOOSE n \in DOMAIN outer : fresh(n) = r]]
                     ELSE h[r]]]

\* items[name].pop('idx_sets') for each name in turn; KeyError stops the loop
RECURSIVE pop_idx_sets(_, _, _)
pop_idx_sets(h, outer, names) ==
    IF names = << >> THEN [heap |-> h, error |-> FALSE]
    ELSE LET r == outer[names[1]]
         IN  IF "idx_sets" \notin DOMAIN h[r]
             THEN [heap |-> h, error |-> TRUE]
             ELSE pop_idx_sets([h EXCEPT ![r] = pop_rest(@, "idx_sets")],
                               outer, Tail(names))

\* cls.initialize_items(scenario, items): the items the scenario lacks are
\* added to it.
initialize_items(held, names) == held \cup names

\* GAMSModel.initialize(scenario)
GAMSModel_initialize(s) ==
    /\ scenario' = [scenario EXCEPT ![s] = initialize_items(@, MESSAGE_ITEMS)]
    /\ UNCHANGED <<item_heap, passed, init_result>>
    /\ UNCHANGED <<ctor_vars, run_vars>>

\* MACRO.initialize(scenario, with_data): initialize_items receives the
\* table the local name items refers to.
MACRO_initialize(s, with_data) ==
    LET c == deepcopy(item_heap, MACRO_ITEMS)
        p == pop_idx_sets(c.heap, c.outer, PopNames)
    IN  /\ item_heap' = [r \in DOMAIN item_heap |-> p.heap[r]]
        /\ IF p.error
           THEN /\ init_result' = [init_result EXCEPT ![s] = "KeyError"]
                /\ UNCHANGED <<passed, scenario>>
           ELSE /\ init_result' = [init_result EXCEPT ![s] = "ok"]
                /\ passed' = [passed EXCEPT
                                ![s] = [n \in DOMAIN c.outer |-> p.heap[c.outer[n]]]]
                /\ scenario' = [scenario EXCEPT
                                  ![s] = initialize_items(@, DOMAIN c.outer)]
        /\ UNCHANGED <<ctor_vars, run_vars>>

\* Items a scenario may hold before any initialize call.
ScenarioSamples == { {}, {"sector", "GDP"}, {"level_storage"}, {"C", "time_seq"} }

\* ------------------------------------------------------- specification
\* The state before any object is constructed; files are the cplex.opt of
\* each directory, held the items of each scenario.
InitWith(files, held) ==
    /\ heap = [r \in Refs |-> IF r = DefaultRef THEN DEFAULT_CPLEX_OPTIONS ELSE << >>]
    /\ status = [i \in Inst |-> "unborn"]
    /\ cls = [i \in Inst |-> None]
    /\ args = [i \in Inst |-> EmptyKw]
    /\ cplex_opts = [i \in Inst |-> NoRef]
    /\ base_opts = [i \in Inst |-> EmptyKw]
    /\ model_dir = [i \in Inst |-> None]
    /\ release = [i \in Inst |-> << >>]
    /\ gr_calls = [i \in Inst |-> 0]
    /\ sets = [i \in Inst |-> << >>]
    /\ gr = IdleFrame
    /\ optfile = files
    /\ last_write = [d \in Dirs |-> [by |-> 0, over |-> FALSE]]
    /\ pc = [i \in Inst |-> "idle"]
    /\ base_result = [i \in Inst |-> NoOutcome]
    /\ result = [i \in Inst |-> NoOutcome]
    /\ exclusive = [i \in Inst |-> TRUE]
    /\ nruns = [i \in Inst |-> 0]
    /\ item_heap = [r \in {ItemRef(n) : n \in DOMAIN MACRO_ITEMS_data} |->
                      MACRO_ITEMS_data[CHOOSE n \in DOMAIN MACRO_ITEMS_data : ItemRef(n) = r]]
    /\ scenario = held
    /\ passed = [s \in Scenarios |-> << >>]
    /\ init_result = [s \in Scenarios |-> None]

NoFiles == [d \in Dirs |-> NoFile]
FileInits == {NoFiles, [NoFiles EXCEPT ![ConfigModelDir] = StaleFile]}
NoItems == [s \in Scenarios |-> {}]
ItemInits == [Scenarios -> ScenarioSamples]

Init == \E files \in FileInits, held \in ItemInits : InitWith(files, held)

\* Construction of GAMSModel and MESSAGE objects and changes of their options.
NextConstruct ==
    \/ \E i \in Inst, c \in Classes, opts \in ModelOptionSamples : New(i, c, opts)
    \/ \E i \in Inst, kv \in SetSamples : SetOption(i, kv[1], kv[2])

\* Runs of MESSAGE objects.
RunOptions ==
    { EmptyKw,
      With(EmptyKw, "solve_options", << <<"threads", Int_(8)>> >>),
      With(With(EmptyKw, "model_dir", "usr"), "solve_options",
           << <<"iis", Int_(1)>>, <<"lpmethod", Int_(4)>> >>) }

NextRun ==
    \/ \E i \in Inst, opts \in RunOptions : New(i, "MESSAGE", opts)
    \/ \E i \in Inst : SetOption(i, "threads", Int_(2))
    \/ \E i \in Inst : GAMSModel_run_call(i)
    \/ \E i \in Inst, o \in BaseOutcomes : super_run_end(i, o)
    \/ \E i \in Inst : GAMSModel_run_exit(i)

\* The life of objects of every class in a single-threaded program, from
\* construction to their runs: a call starts when no other is in progress.
Quiet == gr.pc = "idle" /\ \A j \in Inst : pc[j] \notin Active

NextLife ==
    \/ \E i \in Inst, c \in Classes : Quiet /\ New(i, c, EmptyKw)
    \/ \E i \in Inst, c \in Classes : Quiet /\ MACRO_init_call(i, c, EmptyKw)
    \/ gams_release_exec
    \/ gams_release_cleanup
    \/ gams_release_parse
    \/ \E i \in Inst : MACRO_init_check(i)
    \/ \E i \in Inst : Quiet /\ GAMSModel_run_call(i)
    \/ \E i \in Inst, o \in BaseOutcomes : super_run_end(i, o)
    \/ \E i \in Inst : GAMSModel_run_exit(i)

\* The classmethods that set up scenarios.
NextItems ==
    \/ \E s \in Scenarios : GAMSModel_initialize(s)
    \/ \E s \in Scenarios, with_data \in BOOLEAN : MACRO_initialize(s, with_data)

Next ==
    \/ \E i \in Inst, c \in Classes, opts \in ModelOptionSamples : New(i, c, opts)
    \/ \E i \in Inst, c \in Classes, opts \in ModelOptionSamples : MACRO_init_call(i, c, opts)
    \/ gams_release_exec
    \/ gams_release_cleanup
    \/ gams_release_parse
    \/ \E i \in Inst : MACRO_init_check(i)
    \/ \E i \in Inst, kv \in SetSamples : SetOption(i, kv[1], kv[2])
    \/ \E i \in Inst : GAMSModel_run_call(i)
    \/ \E i \in Inst, o \in BaseOutcomes : super_run_end(i, o)
    \/ \E i \in Inst : GAMSModel_run_exit(i)
    \/ NextItems

\* Every behaviour of the four specifications below is a behaviour of Spec;
\* each explores one part of it.
Spec == Init /\ [][Next]_vars
SpecConstruct == InitWith(NoFiles, NoItems) /\ [][NextConstruct]_vars
SpecRun == (\E files \in FileInits : InitWith(files, NoItems)) /\ [][NextRun]_vars
SpecLife == InitWith(NoFiles, NoItems) /\ [][NextLife]_vars
SpecItems == (\E held \in ItemInits : InitWith(NoFiles, held)) /\ [][NextItems]_vars

\* ================================================================ claims
Ok(i) == status[i] = "ok"
MacroFamily == {"MACRO", "MESSAGE_MACRO"}
Finished(i) == pc[i] = "done"
FileOf(i) == optfile[model_dir[i]]

\* C1: a run that had its model_dir to itself ends as super().run ended (the
\* same value returned, the same error raised), and the cplex.opt it wrote
\* is gone once it has finished.
C1_RunRemovesOptfile ==
    \A i \in Inst :
        Finished(i) /\ exclusive[i] =>
            /\ base_result[i] \in BaseOutcomes
            /\ result[i] = base_result[i]
            /\ last_write[model_dir[i]].by = i => ~FileOf(i).exists

C1_Witness ==
    \E i, j \in Inst :
        /\ Finished(i) /\ exclusive[i] /\ base_result[i].kind = "raise"
        /\ Finished(j) /\ exclusive[j] /\ base_result[j].kind = "return"
        /\ model_dir[i] = model_dir[j]
        /\ last_write[model_dir[i]].by \in {i, j}
        /\ ~FileOf(i).exists

\* C2: in a run that has its model_dir to itself, from the start of the
\* engine until the unlink, cplex.opt exists and holds the text of the
\* options of this instance.
C2_EngineSeesOptfile ==
    \A i \in Inst :
        pc[i] \in Active /\ exclusive[i] =>
            /\ FileOf(i).exists
            /\ last_write[model_dir[i]].by = i
            /\ FileOf(i).text = optfile_text(heap[cplex_opts[i]])

C2_Witness ==
    \E i \in Inst :
        /\ pc[i] = "engine" /\ exclusive[i]
        /\ "solve_options" \in DOMAIN args[i]
        /\ args[i]["solve_options"] # << >>
        /\ FileOf(i).exists
        /\ \E n \in DOMAIN FileOf(i).text : FileOf(i).text[n] = "iis"

\* C3: a MACRO or MESSAGE_MACRO construction that got a release from gams
\* raises RuntimeError exactly when that release is earlier than 24.8.1 in
\* version order, and otherwise completes.
MinRelease == <<24, 8, 1>>

Earlier(r, q) ==
    \/ r[1] < q[1]
    \/ r[1] = q[1] /\ r[2] < q[2]
    \/ r[1] = q[1] /\ r[2] = q[2] /\ r[3] < q[3]

C3_MinVersionInVersionOrder ==
    \A i \in Inst :
        cls[i] \in MacroFamily /\ release[i] # << >> =>
            /\ status[i] \in {"ok", "RuntimeError"}
            /\ status[i] = "RuntimeError" <=> Earlier(release[i], MinRelease)

\* C4: the options of a constructed object nobody has changed since are the
\* defaults merged with solve_options: the user's value for each key given,
\* the default for every other default key, no further key; the defaults
\* themselves when solve_options is not passed; and solve_options is not
\* among the options forwarded to the base class.
Given(i) == IF "solve_options" \in DOMAIN args[i] THEN args[i]["solve_options"] ELSE << >>

C4_OptionsMerged ==
    \A i \in Inst :
        Ok(i) /\ sets[i] = << >> =>
            LET o == heap[cplex_opts[i]]
                g == Given(i)
            IN  /\ Keys(o) = Keys(DEFAULT_CPLEX_OPTIONS) \cup Keys(g)
                /\ Len(o) = Cardinality(Keys(o))
                /\ \A k \in Keys(g) : Lookup(o, k) = Lookup(g, k)
                /\ \A k \in Keys(DEFAULT_CPLEX_OPTIONS) \ Keys(g) :
                       Lookup(o, k) = Lookup(DEFAULT_CPLEX_OPTIONS, k)
                /\ "solve_options" \notin DOMAIN args[i] => o = DEFAULT_CPLEX_OPTIONS
                /\ "solve_options" \notin DOMAIN base_opts[i]
                /\ DOMAIN base_opts[i] = (DOMAIN args[i] \ {"solve_options"}) \cup {"model_dir"}

C4_Witness ==
    \E i \in Inst :
        /\ Ok(i) /\ sets[i] = << >>
        /\ "solve_options" \in DOMAIN args[i]
        /\ Keys(Given(i)) = {"iis", "lpmethod"}
        /\ Lookup(heap[cplex_opts[i]], "lpmethod") = Int_(4)
        /\ Lookup(heap[cplex_opts[i]], "threads") = Int_(4)

\* C5: interference comes from sharing model_dir and from nothing else: if
\* the engine of a run executes while cplex.opt is absent or holds other
\* text than this instance's options, or a run ends with the
\* FileNotFoundError of its unlink, then another instance with the same
\* model_dir has started a run.  (That such states are reached is the
\* witness.)
Sharer(i) == \E j \in Inst \ {i} : Ok(j) /\ model_dir[j] = model_dir[i] /\ nruns[j] > 0

C5_RaceOnlyBySharedDir ==
    \A i \in Inst :
        /\ pc[i] = "engine" /\ ~FileOf(i).exists => Sharer(i)
        /\ pc[i] = "engine" /\ FileOf(i).exists
             /\ FileOf(i).text # optfile_text(heap[cplex_opts[i]]) => Sharer(i)
        /\ Finished(i) /\ result[i] = Raise("FileNotFoundError") => Sharer(i)

C5_Witness ==
    \E i, j \in Inst :
        /\ i # j /\ model_dir[i] = model_dir[j]
        /\ pc[i] = "engine" /\ ~FileOf(i).exists
        /\ Finished(j) /\ result[j] = base_result[j]

\* C6: a construction that raised the version error is of the MACRO family
\* and reached nothing of the base initializer (no cplex_opts, no forwarded
\* options, no model_dir) and its object never ran or wrote cplex.opt; a
\* MACRO-family object that exists got its release before it was
\* initialized; GAMSModel and MESSAGE never call gams_release and never
\* raise the version error.
C6_CheckComesFirst ==
    \A i \in Inst :
        /\ status[i] = "RuntimeError" =>
              /\ cls[i] \in MacroFamily
              /\ cplex_opts[i] = NoRef
              /\ heap[OwnRef(i)] = << >>
              /\ base_opts[i] = EmptyKw
              /\ model_dir[i] = None
              /\ nruns[i] = 0 /\ pc[i] = "idle"
              /\ \A d \in Dirs : last_write[d].by # i
        /\ cls[i] \in MacroFamily /\ Ok(i) => gr_calls[i] = 1 /\ release[i] # << >>
        /\ cls[i] \in {"GAMSModel", "MESSAGE"} =>
              gr_calls[i] = 0 /\ status[i] # "RuntimeError"

C6_Witness ==
    \E i, j \in Inst :
        /\ status[i] = "RuntimeError" /\ cls[i] = "MESSAGE_MACRO"
        /\ cls[j] = "MESSAGE" /\ Ok(j) /\ Finished(j)

\* C7: the cplex.opt an instance wrote holds, for the n entries of its
\* options in their order, the tokens key, ' = ', str(value), with one
\* newline between consecutive lines and none at the end, whatever the file
\* held before.
IsLinesOf(text, d) ==
    LET n == Len(d)
    IN  /\ Len(text) = IF n = 0 THEN 0 ELSE 4 * n - 1
        /\ \A j \in 1 .. n :
               /\ text[4 * j - 3] = d[j][1]
               /\ text[4 * j - 2] = " = "
               /\ text[4 * j - 1] = PyStr(d[j][2])
               /\ j < n => text[4 * j] = "\n"

C7_OptfileText ==
    \A d \in Dirs :
        optfile[d].exists /\ last_write[d].by \in Inst =>
            IsLinesOf(optfile[d].text, heap[cplex_opts[last_write[d].by]])

C7_Witness ==
    \E d \in Dirs :
        /\ optfile[d].exists /\ last_write[d].by \in Inst
        /\ last_write[d].over
        /\ sets[last_write[d].by] # << >>
        /\ optfile[d].text =
              <<"advind", " = ", "0", "\n", "lpmethod", " = ", "2", "\n",
                "threads", " = ", "2", "\n", "epopt", " = ", "1e-06">>

\* C8: DEFAULT_CPLEX_OPTIONS keeps its four entries, and the options of an
\* instance change only in a step in which the user assigns to them.
C8_DefaultsAndInstancesApart ==
    /\ [](heap[DefaultRef] =
            << <<"advind", Int_(0)>>, <<"lpmethod", Int_(2)>>,
               <<"threads", Int_(4)>>, <<"epopt", Float_(1, -6)>> >>)
    /\ [][\A i \in Inst :
            Ok(i) /\ sets'[i] = sets[i] =>
                /\ cplex_opts'[i] = cplex_opts[i]
                /\ heap'[cplex_opts[i]] = heap[cplex_opts[i]]]_vars

C8_Witness ==
    \E i, j \in Inst :
        /\ i # j /\ Ok(i) /\ Ok(j)
        /\ Given(i) # << >>
        /\ sets[j] # << >>
        /\ Finished(i)
        /\ heap[cplex_opts[i]] # heap[cplex_opts[j]]

\* C9: MACRO_ITEMS is as it was, no call ended in KeyError, and each call
\* handed on MACRO_ITEMS without the idx_sets of the six items.
C9_MacroItemsUnchanged ==
    /\ \A n \in DOMAIN MACRO_ITEMS_data : item_heap[ItemRef(n)] = MACRO_ITEMS_data[n]
    /\ \A s \in Scenarios :
          /\ init_result[s] # "KeyError"
          /\ init_result[s] = "ok" =>
                /\ DOMAIN passed[s] = DOMAIN MACRO_ITEMS_data
                /\ \A n \in DOMAIN MACRO_ITEMS_data :
                      IF n \in {"C", "COST_NODAL", "COST_NODAL_NET", "DEMAND", "GDP", "I"}
                      THEN /\ DOMAIN passed[s][n] = DOMAIN MACRO_ITEMS_data[n] \ {"idx_sets"}
                           /\ \A k \in DOMAIN passed[s][n] :
                                  passed[s][n][k] = MACRO_ITEMS_data[n][k]
                      ELSE passed[s][n] = MACRO_ITEMS_data[n]

C9_Witness ==
    /\ \A s \in Scenarios : init_result[s] = "ok"
    /\ "idx_sets" \in DOMAIN item_heap[ItemRef("DEMAND")]
    /\ "idx_sets" \notin DOMAIN passed["s1"]["DEMAND"]
    /\ "idx_sets" \in DOMAIN passed["s2"]["aeei"]

\* C10: when a call of gams_release has finished, by returning or by
\* raising, its temporary directory, null.gms and null.lst are gone.
C10_TempDirRemoved ==
    gr.pc \in {"returned", "raised"} => ~gr.tmp_dir /\ ~gr.gms /\ ~gr.lst

====
